---- MODULE Spec2Model ----
(***************************************************************************)
(* Pecus Chain Data Sync Agent (local-agent, C#): the SyncWorker background *)
(* service of src/README.md.  The model follows SyncWorker.ExecuteAsync:    *)
(* identity resolution, then the scheduling loop                            *)
(*   LoadConfig -> GetSyncStatus -> FetchBatchData -> UploadData -> Delay   *)
(* with the cloud API, the local DelPro store, the configuration file, the  *)
(* clock and the cancellation token as the environment.                     *)
(*                                                                          *)
(* Dates are whole numbers: years counted from the fixed start date         *)
(* "2018-09-11" (FallbackDate), so DateTime.Now.AddYears(-1) is now - 1.    *)
(***************************************************************************)
EXTENDS Integers, Sequences, FiniteSets, TLC

(***************************************************************************)
(* Bounds of the model.                                                     *)
(***************************************************************************)
\* most rows the local store holds, all tables together; a table numbers its
\* rows 1, 2, ... as they are recorded
MaxRows == 2
\* the TOP n of every capped query (TOP 2000 in the source), scaled down
BatchMax == 1
\* the clock runs from year 1 to year MaxNow
MaxNow == 2
\* most streams whose read fails in one extraction
MaxFaults == 1

(***************************************************************************)
(* Program constants.                                                       *)
(***************************************************************************)
\* private const int PollingIntervalSeconds = 1800
PollingIntervalSeconds == 1800
\* Task.Delay(TimeSpan.FromSeconds(60)) of the catch block
ErrorDelaySeconds == 60
\* var fallbackDate = "2018-09-11": year 0 of the model's dates
FallbackDate == 0
\* for(int i=0; i<3; i++) of FetchMockIncrementalBatch
MockBatchSize == 3
\* ExitDate IS NULL
NullDate == 0 - 1

Oids == 1..MaxRows
\* ExitDate of an animal row, BeginTime of a session row
ExitDates == {NullDate, 1}
BeginTimes == {1, 2}

Min(a, b) == IF a <= b THEN a ELSE b
Max(a, b) == IF a >= b THEN a ELSE b

(***************************************************************************)
(* The local store: the six DelPro tables the agent reads, each a set of    *)
(* rows with the columns the queries look at.  OID is each table's key.     *)
(***************************************************************************)
BasicAnimalRows == [OID : Oids, ExitDate : ExitDates]
HistoryAnimalRows == [OID : Oids, ReferenceID : Oids]
LactationRows == [OID : Oids, Animal : Oids]
SessionRows == [OID : Oids, BeginTime : BeginTimes, SessionNo : {0}]
VoluntaryRows == [OID : Oids]
DiversionRows == [OID : Oids]

Tables == {"BasicAnimal", "HistoryAnimal", "AnimalLactationSummary",
           "SessionMilkYield", "VoluntarySessionMilkYield",
           "HistoryMilkDiversionInfo"}

RowsOf(t) ==
    CASE t = "BasicAnimal" -> BasicAnimalRows
      [] t = "HistoryAnimal" -> HistoryAnimalRows
      [] t = "AnimalLactationSummary" -> LactationRows
      [] t = "SessionMilkYield" -> SessionRows
      [] t = "VoluntarySessionMilkYield" -> VoluntaryRows
      [] t = "HistoryMilkDiversionInfo" -> DiversionRows

EmptyStore == [t \in Tables |-> {}]

RowCount(db) ==
    Cardinality(db["BasicAnimal"]) + Cardinality(db["HistoryAnimal"])
    + Cardinality(db["AnimalLactationSummary"]) + Cardinality(db["SessionMilkYield"])
    + Cardinality(db["VoluntarySessionMilkYield"])
    + Cardinality(db["HistoryMilkDiversionInfo"])

(***************************************************************************)
(* SQL helpers: ORDER BY OID ASC, TOP n, and a reader that throws after     *)
(* k rows were added to the list (NoFault: the read completes).             *)
(***************************************************************************)
\* ORDER BY OID DESC
RECURSIVE OrderByOidDesc(_)
OrderByOidDesc(S) ==
    IF S = {} THEN << >>
    ELSE LET m == CHOOSE r \in S : \A q \in S : r.OID >= q.OID
         IN <<m>> \o OrderByOidDesc(S \ {m})

\* ORDER BY OID ASC
RECURSIVE OrderByOid(_)
OrderByOid(S) ==
    IF S = {} THEN << >>
    ELSE LET m == CHOOSE r \in S : \A q \in S : r.OID <= q.OID
         IN <<m>> \o OrderByOid(S \ {m})

\* SELECT without TOP
TopUnbounded(n, s) == s

\* SELECT TOP n
Top(n, s) == SubSeq(s, 1, Min(n, Len(s)))

NoFault == 0 - 1

ReadRows(s, k) == IF k = NoFault THEN s ELSE SubSeq(s, 1, Min(k, Len(s)))

OidsOf(s) == {s[i].OID : i \in 1..Len(s)}

(***************************************************************************)
(* Read failures of one extraction.  A fault map gives, for every place     *)
(* where FetchBatchData touches the store, NoFault or the number of rows    *)
(* the reader delivered before it threw ("open": conn.Open() throws;        *)
(* "check": the TOP 1 probe of the session strategy throws).                *)
(***************************************************************************)
FaultPoints == {"open", "animals", "history", "lactations", "check",
                "sessions", "voluntary", "diversions"}

NoFaults == [p \in FaultPoints |-> NoFault]

CutsOf(p) == IF p \in {"open", "check"} THEN {0} ELSE 0..MaxRows

RECURSIVE FaultsUpTo(_)
FaultsUpTo(n) ==
    IF n = 0 THEN {NoFaults}
    ELSE LET less == FaultsUpTo(n - 1)
         IN less \cup UNION {{[g EXCEPT ![p] = k] : k \in CutsOf(p)} :
                                g \in less, p \in FaultPoints}

Faults == FaultsUpTo(MaxFaults)

Failed(f) == {p \in FaultPoints : f[p] # NoFault}

\* the database the local SQL Server hosts; a query on any other name throws
HostedDb == "DelPro"

FaultsOn(databaseName, f) ==
    IF databaseName = HostedDb THEN f ELSE [p \in FaultPoints |-> 0]

(***************************************************************************)
(* IngestPayload and SyncStatusResponse.                                    *)
(***************************************************************************)
IngestPayload(farmId, animals, lactations, sessions, voluntary, diversions, historyAnimals) ==
    [farm_id |-> farmId,
     basic_animals |-> animals,
     lactations_summary |-> lactations,
     sessions_milk_yield |-> sessions,
     voluntary_sessions_milk_yield |-> voluntary,
     history_milk_diversion_info |-> diversions,
     history_animals |-> historyAnimals]

SyncStatusResponse(s, a, l, d) ==
    [last_oid |-> s, last_animal_oid |-> a, last_lactation_oid |-> l,
     last_history_milk_diversion_oid |-> d]

(***************************************************************************)
(* FetchMockIncrementalBatch: rnd.skip is rnd.Next(0, 10) < 3, rnd.guid the *)
(* fresh Guid of the generated rows.                                        *)
(***************************************************************************)
MockGuids == {1, 2}
MockDraws == [skip : BOOLEAN, guid : MockGuids]
NoDraw == [skip |-> TRUE, guid |-> 1]

FetchMockIncrementalBatch(farmId, lastOid, now, rnd) ==
    IF rnd.skip
    THEN IngestPayload(farmId, << >>, << >>, << >>, << >>, << >>, << >>)
    ELSE LET startOid == lastOid + 1
             sessions == [i \in 1..MockBatchSize |->
                            [OID |-> startOid + (i - 1), BeginTime |-> now,
                             SessionNo |-> rnd.guid]]
         IN IngestPayload(farmId, << >>, << >>, sessions, << >>, << >>, << >>)

(***************************************************************************)
(* FetchBatchData.  db is the store, now the clock, mock IsMockMode of the  *)
(* connection string, f the read failures of this call, rnd the random      *)
(* draw of the mock batch.                                                  *)
(***************************************************************************)
OneYearAgo(now) == now - 1

Alive(a, oneYearAgo) == a.ExitDate = NullDate \/ a.ExitDate > oneYearAgo

SqlAnimalsTop(top, db, lastAnimalOid, oneYearAgo) ==
    Top(top, OrderByOid({a \in db["BasicAnimal"] :
            Alive(a, oneYearAgo) /\ a.OID > lastAnimalOid}))

SqlAnimals(db, lastAnimalOid, oneYearAgo) == SqlAnimalsTop(BatchMax, db, lastAnimalOid, oneYearAgo)

\* a history query without the IN list
SqlHistoryAll(db, newOids) == OrderByOid(db["HistoryAnimal"])

SqlHistory(db, newOids) ==
    OrderByOid({h \in db["HistoryAnimal"] : h.ReferenceID \in newOids})

SqlLactTop(top, db, lastLactationOid, oneYearAgo) ==
    Top(top, OrderByOid({l \in db["AnimalLactationSummary"] :
            /\ \E a \in db["BasicAnimal"] : l.Animal = a.OID /\ Alive(a, oneYearAgo)
            /\ l.OID > lastLactationOid}))

SqlLact(db, lastLactationOid, oneYearAgo) == SqlLactTop(BatchMax, db, lastLactationOid, oneYearAgo)

\* a probe that never finds a row
HasRecentDataNever(db, oneYearAgo, checkFails) == FALSE

HasRecentData(db, oneYearAgo, checkFails) ==
    IF checkFails THEN FALSE
    ELSE \E s \in db["SessionMilkYield"] : s.BeginTime > oneYearAgo

SqlSessionsTop(top, db, lastSessionOid, oneYearAgo, checkFails) ==
    IF lastSessionOid = 0
    THEN LET startDate == IF HasRecentData(db, oneYearAgo, checkFails)
                          THEN oneYearAgo ELSE FallbackDate
         IN Top(top, OrderByOid({s \in db["SessionMilkYield"] :
                    s.BeginTime > startDate}))
    ELSE Top(top, OrderByOid({s \in db["SessionMilkYield"] :
                    s.OID > lastSessionOid}))

SqlSessions(db, lastSessionOid, oneYearAgo, checkFails) == SqlSessionsTop(BatchMax, db, lastSessionOid, oneYearAgo, checkFails)

SqlVoluntary(db, minOid, maxOid) ==
    OrderByOid({v \in db["VoluntarySessionMilkYield"] :
                    v.OID >= minOid /\ v.OID <= maxOid})

SqlDiversionTop(top, db, lastDiversionOid) ==
    Top(top, OrderByOid({d \in db["HistoryMilkDiversionInfo"] :
            d.OID > lastDiversionOid}))

SqlDiversion(db, lastDiversionOid) == SqlDiversionTop(BatchMax, db, lastDiversionOid)

MinOid(s) == CHOOSE m \in OidsOf(s) : \A o \in OidsOf(s) : m <= o
MaxOidOf(s) == CHOOSE m \in OidsOf(s) : \A o \in OidsOf(s) : m >= o

\* the five numbered blocks inside the outer try, after conn.Open()
\* the reads of FetchBatchData with the TOP of its queries as a parameter
ReadStreamsTop(top, farmId, lastSessionOid, lastAnimalOid, lastLactationOid, lastHistoryMilkDiversionOid, db, now, f) ==
    LET oneYearAgo == OneYearAgo(now)
        animals == ReadRows(SqlAnimalsTop(top, db, lastAnimalOid, oneYearAgo), f["animals"])
        historyAnimals ==
            IF f["animals"] = NoFault /\ animals # << >>
            THEN ReadRows(SqlHistory(db, OidsOf(animals)), f["history"])
            ELSE << >>
        lactations == ReadRows(SqlLactTop(top, db, lastLactationOid, oneYearAgo), f["lactations"])
        sessions == ReadRows(SqlSessionsTop(top, db, lastSessionOid, oneYearAgo,
                                         f["check"] # NoFault), f["sessions"])
        voluntary ==
            IF sessions # << >>
            THEN ReadRows(SqlVoluntary(db, MinOid(sessions), MaxOidOf(sessions)),
                          f["voluntary"])
            ELSE << >>
        diversions == ReadRows(SqlDiversionTop(top, db, lastHistoryMilkDiversionOid),
                               f["diversions"])
    IN IngestPayload(farmId, animals, lactations, sessions, voluntary,
                     diversions, historyAnimals)

ReadStreams(farmId, lastSessionOid, lastAnimalOid, lastLactationOid, lastHistoryMilkDiversionOid, db, now, f) == ReadStreamsTop(BatchMax, farmId, lastSessionOid, lastAnimalOid, lastLactationOid, lastHistoryMilkDiversionOid, db, now, f)

\* an extraction that reads the streams although conn.Open() threw
FetchBatchDataOpenIgnored(farmId, lastSessionOid, lastAnimalOid, lastLactationOid, lastHistoryMilkDiversionOid, databaseName, db, now, mock, f0, rnd) ==
    IF mock THEN FetchMockIncrementalBatch(farmId, lastSessionOid, now, rnd)
    ELSE ReadStreams(farmId, lastSessionOid, lastAnimalOid, lastLactationOid,
                     lastHistoryMilkDiversionOid, db, now,
                     [FaultsOn(databaseName, f0) EXCEPT !["open"] = NoFault])

FetchBatchData(farmId, lastSessionOid, lastAnimalOid, lastLactationOid, lastHistoryMilkDiversionOid, databaseName, db, now, mock, f0, rnd) ==
    IF mock THEN FetchMockIncrementalBatch(farmId, lastSessionOid, now, rnd)
    ELSE LET f == FaultsOn(databaseName, f0)
         IN IF f["open"] # NoFault
            THEN IngestPayload(farmId, << >>, << >>, << >>, << >>, << >>, << >>)
            ELSE ReadStreams(farmId, lastSessionOid, lastAnimalOid, lastLactationOid,
                             lastHistoryMilkDiversionOid, db, now, f)

(***************************************************************************)
(* The configuration file agent_config.json (AgentConfig) and LoadConfig.   *)
(* NoFile: the file is missing, unreadable or malformed (LoadConfig gives   *)
(* null).  FarmId "" stands for null or empty.                              *)
(***************************************************************************)
NoFile == [present |-> FALSE, FarmId |-> "", DatabaseName |-> "DelPro",
           PollingIntervalSeconds |-> PollingIntervalSeconds]
\* a file the operator wrote: another identity, database and interval
OperatorFile == [present |-> TRUE, FarmId |-> "farm-op", DatabaseName |-> "Other",
                 PollingIntervalSeconds |-> 600]

\* new AgentConfig { FarmId = farmId }: the other properties take their defaults
AgentConfig(id) ==
    [present |-> TRUE, FarmId |-> id, DatabaseName |-> "DelPro",
     PollingIntervalSeconds |-> PollingIntervalSeconds]

\* a loop that waits the built-in interval whatever the file says
CurrentIntervalBuiltIn(file) == PollingIntervalSeconds

\* a loop that has no interval without a configuration file
CurrentIntervalNeedsFile(file) ==
    IF file.present THEN file.PollingIntervalSeconds ELSE 0 - 1

\* config?.PollingIntervalSeconds ?? PollingIntervalSeconds
CurrentInterval(file) ==
    IF file.present THEN file.PollingIntervalSeconds ELSE PollingIntervalSeconds
\* config?.DatabaseName ?? "DelPro"
DbName(file) == IF file.present THEN file.DatabaseName ELSE "DelPro"
\* a LoadFarmIdFromConfig that finds no FarmId in the file
LoadFarmIdLost(file) == ""

\* LoadConfig()?.FarmId
LoadFarmIdFromConfig(file) == IF file.present THEN file.FarmId ELSE ""

(***************************************************************************)
(* The cloud side, as far as the agent sees it: the watermark record        *)
(* behind GET /api/sync/status and the acceptance of POST /api/v1/ingest,   *)
(* which moves each watermark to the highest identifier it accepted.        *)
(***************************************************************************)
ZeroStatus == SyncStatusResponse(0, 0, 0, 0)

HighestOid(s, least) == IF s = << >> THEN least ELSE Max(least, MaxOidOf(s))

CloudAccept(c, p) ==
    SyncStatusResponse(HighestOid(p.sessions_milk_yield, c.last_oid),
                       HighestOid(p.basic_animals, c.last_animal_oid),
                       HighestOid(p.lactations_summary, c.last_lactation_oid),
                       HighestOid(p.history_milk_diversion_info,
                                  c.last_history_milk_diversion_oid))

\* the cloud takes no identifier above this one (keeps the mock stream finite)
CloudCap == MaxRows + MockBatchSize

WithinCap(p) == HighestOid(p.sessions_milk_yield, 0) <= CloudCap

(***************************************************************************)
(* State.                                                                   *)
(***************************************************************************)
VARIABLES
    pc,          \* where ExecuteAsync stands
    farmId,      \* the resolved FARM_ID ("" while unresolved)
    currentInterval, dbName,   \* locals of the cycle, from LoadConfig
    status,      \* the SyncStatusResponse of the running cycle
    payload,     \* the IngestPayload of the running cycle
    delay,       \* seconds of the Task.Delay in progress
    mock,        \* IsMockMode(connection string)
    configFile,  \* agent_config.json
    stoppingToken,  \* cancellation requested
    cloud,       \* the cloud's watermarks
    store,       \* the local DelPro database
    now,         \* the clock (year)
    log,         \* what the running cycle did so far, in order
    outcome,     \* how the upload of the cycle ended
    failed,      \* the reads that threw in the running cycle's extraction
    prev,        \* the last cycle whose upload failed, until the next extraction
    inflight,    \* cycles begun and not yet finished
    resumed,     \* the host was suspended and resumed during the wait in progress
    consulted    \* the sources of the FARM_ID read at startup, until the first cycle

vars == <<pc, farmId, currentInterval, dbName, status, payload, delay,
          mock, configFile, stoppingToken, cloud,
          store, now, log, outcome, failed, prev, inflight, resumed, consulted>>

agentVars == <<farmId, currentInterval, dbName, status, payload>>
envVars == <<mock, configFile, stoppingToken, cloud, store, now>>
histVars == <<resumed, consulted>>

\* nothing read yet
NotConsulted == [sources |-> << >>, interactive |-> "unread"]

EmptyPayload(id) == IngestPayload(id, << >>, << >>, << >>, << >>, << >>, << >>)

NoPrev == [set |-> FALSE, status |-> ZeroStatus, payload |-> EmptyPayload(""),
           db |-> EmptyStore, now |-> 0, clean |-> TRUE]

EnvFarmIds == {"", "UNKNOWN_FARM", "farm-env"}

Init ==
    /\ pc = "start"
    /\ farmId = ""
    /\ currentInterval = PollingIntervalSeconds
    /\ dbName = "DelPro"
    /\ status = ZeroStatus
    /\ payload = EmptyPayload("")
    /\ delay = 0
    /\ mock \in BOOLEAN
    /\ configFile \in {NoFile, AgentConfig("farm-cfg")}
    /\ stoppingToken = FALSE
    /\ cloud = ZeroStatus
    /\ store = EmptyStore
    /\ now = 1
    /\ log = << >>
    /\ outcome = "none"
    /\ failed = {}
    /\ prev = NoPrev
    /\ inflight = 0
    /\ resumed = FALSE
    /\ consulted = NotConsulted

Terminal == {"aborted", "stopped", "faulted"}
InCycle == {"status", "fetch", "upload", "posting"}

(***************************************************************************)
(* The two waits of the loop.  Task.Delay throws at once when the token is  *)
(* already cancelled or the time span is negative; an exception of the try  *)
(* block lands in the catch block, whose own Task.Delay(60 s) is awaited    *)
(* outside any handler, so that its exception ends ExecuteAsync.            *)
(***************************************************************************)
\* a catch block that lets the exception out of ExecuteAsync
CatchRethrow(token) == [pc |-> "faulted", delay |-> 0]

\* a catch block that waits the configured interval
CatchWaitsInterval(token) ==
    IF token THEN [pc |-> "faulted", delay |-> 0]
    ELSE [pc |-> "errdelay", delay |-> currentInterval]

Catch(token) ==
    IF token THEN [pc |-> "faulted", delay |-> 0]
    ELSE [pc |-> "errdelay", delay |-> ErrorDelaySeconds]

\* a cycle that always ends in the wait of the catch block
WaitAsAfterException(seconds, token) == Catch(token)

Wait(seconds, token) ==
    IF seconds < 0 \/ token THEN Catch(token)
    ELSE [pc |-> "delay", delay |-> seconds]

(***************************************************************************)
(* ExecuteAsync, part 1: resolve FARM_ID (environment, then configuration   *)
(* file, then interactive registration).                                    *)
(***************************************************************************)
FarmNames == {"", "Farm"}
RegisterResults == {"", "farm-reg"}

\* one source of the FARM_ID and what it gave
Source(name, id) == [source |-> name, id |-> id]

\* a startup that takes every FARM_ID as set
NeverUnset(id) == FALSE

\* a startup that takes the placeholder for a FARM_ID
IsEmptyOnly(id) == id = ""

\* FARM_ID of the configuration is missing, empty or the placeholder
IsUnset(id) == id = "" \/ id = "UNKNOWN_FARM"

\* a startup without the final check of the FARM_ID
NeverAborted(id) == FALSE

\* "Startup aborted. No valid FARM_ID."
StartupAborted(id) == id = ""

\* a startup that saves whatever the registration returned
ConfigSavedAlways(id, saved, file) == AgentConfig(id)

\* if (!string.IsNullOrEmpty(farmId)) SaveFarmIdToConfig(farmId), whose
\* File.WriteAllText may fail, leaving the file as it was
ConfigAfterRegistration(id, saved, file) ==
    IF id # "" /\ saved THEN AgentConfig(id) ELSE file

ResolveIdentity ==
    /\ pc = "start"
    /\ \E envFarmId \in EnvFarmIds, interactive \in BOOLEAN :
       LET fromEnv == <<Source("FARM_ID", envFarmId)>>
           loaded == IF IsUnset(envFarmId)
                     THEN LoadFarmIdFromConfig(configFile) ELSE envFarmId
           fromFile == IF IsUnset(envFarmId)
                       THEN Append(fromEnv, Source("file", loaded)) ELSE fromEnv
       IN IF loaded # ""
          THEN /\ farmId' = loaded
               /\ pc' = IF StartupAborted(loaded) THEN "aborted" ELSE "loop"
               /\ consulted' = [sources |-> fromFile, interactive |-> "unread"]
               /\ UNCHANGED configFile
          ELSE IF ~interactive
          THEN /\ pc' = "aborted"
               /\ consulted' = [sources |-> fromFile, interactive |-> "no"]
               /\ UNCHANGED <<farmId, configFile>>
          ELSE \E farmName \in FarmNames, answer \in RegisterResults, saved \in BOOLEAN :
                 LET id == IF farmName = "" \/ stoppingToken THEN "" ELSE answer
                 IN /\ farmId' = id
                    /\ configFile' = ConfigAfterRegistration(id, saved, configFile)
                    /\ consulted' =
                         [sources |-> IF farmName = "" THEN fromFile
                                      ELSE Append(fromFile, Source("registration", id)),
                          interactive |-> "yes"]
                    /\ pc' = IF StartupAborted(id) THEN "aborted" ELSE "loop"
    /\ UNCHANGED <<currentInterval, dbName, status, payload, delay,
                   mock, stoppingToken, cloud, store, now, log,
                   outcome, failed, prev, inflight, resumed>>

(***************************************************************************)
(* ExecuteAsync, part 2: the scheduling loop.                               *)
(***************************************************************************)
\* a loop that extracts without asking the cloud for its watermarks
BeginCycleNoStatus ==
    /\ pc = "loop"
    /\ ~stoppingToken
    /\ currentInterval' = CurrentInterval(configFile)
    /\ dbName' = DbName(configFile)
    /\ log' = << >>
    /\ outcome' = "none"
    /\ inflight' = inflight + 1
    /\ pc' = "fetch"
    /\ UNCHANGED <<farmId, status, payload, failed, delay, prev>>
    /\ UNCHANGED envVars
    /\ consulted' = NotConsulted
    /\ UNCHANGED resumed

\* a timer that starts a cycle whether or not the last one has finished
BeginCycleOverlapping ==
    /\ pc \in {"loop"} \cup InCycle
    /\ ~stoppingToken
    /\ currentInterval' = CurrentInterval(configFile)
    /\ dbName' = DbName(configFile)
    /\ log' = << >>
    /\ outcome' = "none"
    /\ inflight' = inflight + 1
    /\ pc' = "status"
    /\ UNCHANGED <<farmId, status, payload, failed, delay, prev>>
    /\ UNCHANGED envVars
    /\ consulted' = NotConsulted
    /\ UNCHANGED resumed

\* while (!stoppingToken.IsCancellationRequested) { LoadConfig(); GetSyncStatus(farmId) ...
\* a loop that takes the FARM_ID of the configuration file it re-reads
BeginCycleReloadsIdentity ==
    /\ pc = "loop"
    /\ ~stoppingToken
    /\ farmId' = IF LoadFarmIdFromConfig(configFile) # ""
                 THEN LoadFarmIdFromConfig(configFile) ELSE farmId
    /\ currentInterval' = CurrentInterval(configFile)
    /\ dbName' = DbName(configFile)
    /\ log' = << >>
    /\ outcome' = "none"
    /\ inflight' = inflight + 1
    /\ pc' = "status"
    /\ UNCHANGED <<status, payload, failed, delay, prev>>
    /\ UNCHANGED envVars
    /\ consulted' = NotConsulted
    /\ UNCHANGED resumed

BeginCycle ==
    /\ pc = "loop"
    /\ ~stoppingToken
    /\ currentInterval' = CurrentInterval(configFile)
    /\ dbName' = DbName(configFile)
    /\ log' = << >>
    /\ outcome' = "none"
    /\ inflight' = inflight + 1
    /\ pc' = "status"
    /\ UNCHANGED <<farmId, status, payload, failed, delay, prev>>
    /\ UNCHANGED envVars
    /\ consulted' = NotConsulted
    /\ UNCHANGED resumed

LoopExit ==
    /\ pc = "loop"
    /\ stoppingToken
    /\ pc' = "stopped"
    /\ UNCHANGED <<delay, log, outcome, failed, prev, inflight>>
    /\ UNCHANGED agentVars
    /\ UNCHANGED envVars
    /\ UNCHANGED histVars

\* the request of GetSyncStatus: answered with the cloud's record ("ok"),
\* failed with an exception ("error": no connection, non-2xx, malformed
\* body), or answered with the body null, on which status.last_oid throws
StatusAnswers == {"ok", "error", "null"}

\* a GetSyncStatus whose catch block answers with the cloud's record
GetSyncStatusStale(answer, c) == c

\* a status client that answers zero watermarks whatever the cloud holds
GetSyncStatusZero(answer, c) == ZeroStatus

GetSyncStatus(answer, c) == IF answer = "ok" THEN c ELSE ZeroStatus

GetSyncStatusDone ==
    /\ pc = "status"
    /\ \E answer \in StatusAnswers :
         /\ log' = Append(log, IF answer = "error" THEN "status failed" ELSE "status")
         /\ IF answer = "null"
            THEN /\ pc' = Catch(stoppingToken).pc
                 /\ delay' = Catch(stoppingToken).delay
                 /\ inflight' = inflight - 1
                 /\ UNCHANGED status
            ELSE /\ status' = GetSyncStatus(answer, cloud)
                 /\ pc' = "fetch"
                 /\ UNCHANGED <<delay, inflight>>
    /\ UNCHANGED <<farmId, currentInterval, dbName, payload, outcome, failed,
                   prev>>
    /\ UNCHANGED envVars
    /\ UNCHANGED histVars

\* an agent that remembers what it sent and extracts from there on
\* a loop that keeps the watermarks of the cycle whose upload failed
WatermarksKept == IF prev.set THEN prev.status ELSE status

WatermarksRemembered ==
    IF prev.set THEN CloudAccept(status, prev.payload) ELSE status

\* long lastOid = status.last_oid; ... the watermarks the extraction is given
Watermarks == status

\* an extraction that deletes what it has read
StoreConsumed(db) == EmptyStore

\* the extraction issues SELECT statements only
StoreAfterExtraction(db) == db

FetchBatchDataStep ==
    /\ pc = "fetch"
    /\ \E f \in IF mock THEN {NoFaults} ELSE Faults,
          rnd \in IF mock THEN MockDraws ELSE {NoDraw} :
         LET fetch(g) == FetchBatchData(farmId, Watermarks.last_oid,
                                        Watermarks.last_animal_oid,
                                        Watermarks.last_lactation_oid,
                                        Watermarks.last_history_milk_diversion_oid,
                                        dbName, store, now, mock, g, rnd)
         IN \* a failure "after k rows" needs a k-th row to have been delivered
            /\ \A p \in FaultPoints :
                 f[p] > 0 => fetch([f EXCEPT ![p] = f[p] - 1]) # fetch(f)
            /\ payload' = fetch(f)
            /\ failed' = IF mock THEN {} ELSE Failed(FaultsOn(dbName, f))
    /\ store' = StoreAfterExtraction(store)
    /\ log' = Append(log, "extract")
    /\ pc' = "upload"
    /\ UNCHANGED <<farmId, currentInterval, dbName, status, delay, outcome, prev,
                   inflight>>
    /\ UNCHANGED <<mock, configFile, stoppingToken, cloud, now>>
    /\ UNCHANGED histVars

\* an UploadData without the short-circuit
NeverSkip(p) == FALSE

\* the short-circuit of UploadData
\* an UploadData that always takes the short-circuit
AlwaysSkip(p) == TRUE

\* a short-circuit that looks at the animal list alone
NoNewAnimals(p) == Len(p.basic_animals) = 0

NoNewData(p) ==
    /\ Len(p.basic_animals) = 0
    /\ Len(p.sessions_milk_yield) = 0
    /\ Len(p.lactations_summary) = 0
    /\ Len(p.history_milk_diversion_info) = 0

\* an UploadData that posts the animal batch in a request of its own
UploadDataSplit ==
    /\ pc = "upload"
    /\ prev' = NoPrev
    /\ IF NoNewData(payload) \/ stoppingToken
       THEN /\ outcome' = IF NoNewData(payload) THEN "skipped" ELSE "failed"
            /\ pc' = Wait(currentInterval, stoppingToken).pc
            /\ delay' = Wait(currentInterval, stoppingToken).delay
            /\ inflight' = inflight - 1
            /\ status' = ZeroStatus
            /\ payload' = EmptyPayload("")
            /\ failed' = {}
            /\ UNCHANGED log
       ELSE /\ log' = Append(log, "ingest")
            /\ pc' = "posting"
            /\ payload' = [EmptyPayload(farmId) EXCEPT
                               !.basic_animals = payload.basic_animals]
            /\ UNCHANGED <<outcome, delay, inflight, status, failed>>
    /\ UNCHANGED <<farmId, currentInterval, dbName>>
    /\ UNCHANGED envVars
    /\ UNCHANGED histVars

\* an UploadData whose request is not given the stopping token
UploadDataIgnoresToken ==
    /\ pc = "upload"
    /\ prev' = NoPrev
    /\ IF NoNewData(payload)
       THEN /\ outcome' = IF NoNewData(payload) THEN "skipped" ELSE "failed"
            /\ pc' = Wait(currentInterval, stoppingToken).pc
            /\ delay' = Wait(currentInterval, stoppingToken).delay
            /\ inflight' = inflight - 1
            /\ status' = ZeroStatus
            /\ payload' = EmptyPayload("")
            /\ failed' = {}
            /\ UNCHANGED log
       ELSE /\ log' = Append(log, "ingest")
            /\ pc' = "posting"
            /\ UNCHANGED <<outcome, delay, inflight, status, payload, failed>>
    /\ UNCHANGED <<farmId, currentInterval, dbName>>
    /\ UNCHANGED envVars
    /\ UNCHANGED histVars

\* UploadData up to its await: nothing to send, or PostAsJsonAsync, which
\* throws without sending when the token is already cancelled
UploadData ==
    /\ pc = "upload"
    /\ prev' = NoPrev
    /\ IF NoNewData(payload) \/ stoppingToken
       THEN /\ outcome' = IF NoNewData(payload) THEN "skipped" ELSE "failed"
            /\ pc' = Wait(currentInterval, stoppingToken).pc
            /\ delay' = Wait(currentInterval, stoppingToken).delay
            /\ inflight' = inflight - 1
            /\ status' = ZeroStatus
            /\ payload' = EmptyPayload("")
            /\ failed' = {}
            /\ UNCHANGED log
       ELSE /\ log' = Append(log, "ingest")
            /\ pc' = "posting"
            /\ UNCHANGED <<outcome, delay, inflight, status, payload, failed>>
    /\ UNCHANGED <<farmId, currentInterval, dbName>>
    /\ UNCHANGED envVars
    /\ UNCHANGED histVars

\* the answer to the POST: accepted (2xx), refused (non-2xx), or an exception
\* (timeout, connection lost, cancellation) with the request processed by the
\* cloud ("lost") or not ("unsent")
IngestAnswers == {"2xx", "non2xx", "lost", "unsent"}

\* a request that ends only when the cloud answers it
PostWithoutTimeout(answer) ==
    /\ pc = "posting"
    /\ answer \in {"2xx", "non2xx"}
    /\ answer \in {"2xx", "lost"} => WithinCap(payload)
    /\ cloud' = IF answer \in {"2xx", "lost"} THEN CloudAccept(cloud, payload)
                ELSE cloud
    /\ outcome' = IF answer = "2xx" THEN "ok" ELSE "failed"
    /\ prev' = IF answer = "2xx" THEN NoPrev
               ELSE [set |-> TRUE, status |-> status, payload |-> payload,
                     db |-> store, now |-> now, clean |-> (failed = {})]
    /\ pc' = Wait(currentInterval, stoppingToken).pc
    /\ delay' = Wait(currentInterval, stoppingToken).delay
    /\ inflight' = inflight - 1
    /\ status' = ZeroStatus
    /\ payload' = EmptyPayload("")
    /\ failed' = {}
    /\ UNCHANGED <<farmId, currentInterval, dbName, log>>
    /\ UNCHANGED <<mock, configFile, stoppingToken, store, now>>
    /\ UNCHANGED histVars

\* the await of PostAsJsonAsync ends with the given answer
PostAsJsonAsync(answer) ==
    /\ pc = "posting"
    /\ answer \in IngestAnswers
    /\ answer \in {"2xx", "lost"} => WithinCap(payload)
    /\ cloud' = IF answer \in {"2xx", "lost"} THEN CloudAccept(cloud, payload)
                ELSE cloud
    /\ outcome' = IF answer = "2xx" THEN "ok" ELSE "failed"
    /\ prev' = IF answer = "2xx" THEN NoPrev
               ELSE [set |-> TRUE, status |-> status, payload |-> payload,
                     db |-> store, now |-> now, clean |-> (failed = {})]
    /\ pc' = Wait(currentInterval, stoppingToken).pc
    /\ delay' = Wait(currentInterval, stoppingToken).delay
    /\ inflight' = inflight - 1
    /\ status' = ZeroStatus
    /\ payload' = EmptyPayload("")
    /\ failed' = {}
    /\ UNCHANGED <<farmId, currentInterval, dbName, log>>
    /\ UNCHANGED <<mock, configFile, stoppingToken, store, now>>
    /\ UNCHANGED histVars

UploadDataDone == \E answer \in IngestAnswers : PostAsJsonAsync(answer)

\* Task.Delay runs out: back to the loop condition
\* a loop that saves its configuration after each wait
DelayDoneSavesConfig ==
    /\ pc \in {"delay", "errdelay"}
    /\ ~stoppingToken
    /\ pc' = "loop"
    /\ delay' = 0
    /\ configFile' = AgentConfig(farmId)
    /\ UNCHANGED <<log, outcome, failed, prev, inflight>>
    /\ UNCHANGED agentVars
    /\ UNCHANGED <<mock, stoppingToken, cloud, store, now>>
    /\ resumed' = FALSE
    /\ UNCHANGED consulted

DelayDone ==
    /\ pc \in {"delay", "errdelay"}
    /\ ~stoppingToken
    /\ pc' = "loop"
    /\ delay' = 0
    /\ UNCHANGED <<log, outcome, failed, prev, inflight>>
    /\ UNCHANGED agentVars
    /\ UNCHANGED envVars
    /\ resumed' = FALSE
    /\ UNCHANGED consulted

\* Task.Delay is cancelled: from the try block into the catch block, whose
\* Task.Delay throws in turn; from the catch block out of ExecuteAsync
DelayCancelled ==
    /\ pc \in {"delay", "errdelay"}
    /\ stoppingToken
    /\ pc' = "faulted"
    /\ delay' = 0
    /\ UNCHANGED <<log, outcome, failed, prev, inflight>>
    /\ UNCHANGED agentVars
    /\ UNCHANGED envVars
    /\ resumed' = FALSE
    /\ UNCHANGED consulted

(***************************************************************************)
(* The environment.                                                         *)
(***************************************************************************)
\* The host starts the ended agent again: a new process, new locals of
\* ExecuteAsync, the same configuration file, local store and cloud.
Restart ==
    /\ pc \in Terminal
    /\ pc' = "start"
    /\ farmId' = ""
    /\ currentInterval' = PollingIntervalSeconds
    /\ dbName' = "DelPro"
    /\ status' = ZeroStatus
    /\ payload' = EmptyPayload("")
    /\ delay' = 0
    /\ stoppingToken' = FALSE
    /\ log' = << >>
    /\ outcome' = "none"
    /\ failed' = {}
    /\ prev' = NoPrev
    /\ inflight' = 0
    /\ resumed' = FALSE
    /\ consulted' = NotConsulted
    /\ UNCHANGED <<mock, configFile, cloud, store, now>>

\* The host is suspended during the interval wait and resumes after longer
\* than the interval.  The loop holds no reading of the wall clock: whether
\* the timer of Task.Delay counted the suspension is the runtime's, so either
\* no time is left of the wait or the wait goes on as if nothing happened.
HostResume ==
    /\ pc = "delay"
    /\ ~resumed
    /\ resumed' = TRUE
    /\ \E left \in {0, delay} : delay' = left
    /\ UNCHANGED <<pc, log, outcome, failed, prev, inflight>>
    /\ UNCHANGED agentVars
    /\ UNCHANGED envVars
    /\ UNCHANGED consulted

Cancel ==
    /\ pc \notin Terminal
    /\ ~stoppingToken
    /\ stoppingToken' = TRUE
    /\ UNCHANGED <<pc, delay, log, outcome, failed, prev, inflight>>
    /\ UNCHANGED agentVars
    /\ UNCHANGED <<mock, configFile, cloud, store, now>>
    /\ UNCHANGED histVars

\* a history or lactation row belongs to an animal of the store (a row of
\* no animal is one no query of the agent ever returns)
RefersToAnimal(db, t, r) ==
    /\ t = "HistoryAnimal" => \E a \in db["BasicAnimal"] : a.OID = r.ReferenceID
    /\ t = "AnimalLactationSummary" => \E a \in db["BasicAnimal"] : a.OID = r.Animal

\* DelPro records a new row, under the table's next identifier.  The agent
\* looks at the store in FetchBatchData alone, so a row recorded at any
\* moment since the last extraction is taken as recorded just before this one.
StoreInsert ==
    /\ pc = "fetch"
    /\ ~mock
    /\ RowCount(store) < MaxRows
    /\ \E t \in Tables : \E r \in RowsOf(t) :
         /\ r.OID = Cardinality(store[t]) + 1
         /\ RefersToAnimal(store, t, r)
         /\ store' = [store EXCEPT ![t] = @ \cup {r}]
    /\ UNCHANGED <<pc, delay, log, outcome, failed, prev, inflight>>
    /\ UNCHANGED agentVars
    /\ UNCHANGED <<mock, configFile, stoppingToken, cloud, now>>
    /\ UNCHANGED histVars

\* a year passes; the clock too is read by FetchBatchData alone
ClockAdvance ==
    /\ pc = "fetch"
    /\ now < MaxNow
    /\ now' = now + 1
    /\ UNCHANGED <<pc, delay, log, outcome, failed, prev, inflight>>
    /\ UNCHANGED agentVars
    /\ UNCHANGED <<mock, configFile, stoppingToken, cloud, store>>
    /\ UNCHANGED histVars

\* the operator rewrites, removes or damages agent_config.json; the loop
\* reads the file at the start of a cycle alone
ConfigEdit ==
    /\ pc = "loop"
    /\ \E file \in {NoFile, OperatorFile} :
         /\ file # configFile
         /\ configFile' = file
    /\ UNCHANGED <<pc, delay, log, outcome, failed, prev, inflight>>
    /\ UNCHANGED agentVars
    /\ UNCHANGED <<mock, stoppingToken, cloud, store, now>>
    /\ UNCHANGED histVars

Next ==
    \/ ResolveIdentity
    \/ BeginCycle
    \/ LoopExit
    \/ GetSyncStatusDone
    \/ FetchBatchDataStep
    \/ UploadData
    \/ UploadDataDone
    \/ DelayDone
    \/ DelayCancelled
    \/ Cancel
    \/ StoreInsert
    \/ ClockAdvance
    \/ ConfigEdit
    \/ HostResume
    \/ Restart

Spec == Init /\ [][Next]_vars

(***************************************************************************)
(* Properties of the scheduling loop.                                       *)
(***************************************************************************)
StatusEvents == {"status", "status failed"}

\* the upload requests of the cycle so far
Attempts(l) == Cardinality({i \in 1..Len(l) : l[i] = "ingest"})

\* an agent step: ExecuteAsync moves on
Moves == pc' # pc

Streams == {"animals", "history", "lactations", "sessions", "voluntary",
            "diversions"}

Batch(p, s) ==
    CASE s = "animals" -> p.basic_animals
      [] s = "history" -> p.history_animals
      [] s = "lactations" -> p.lactations_summary
      [] s = "sessions" -> p.sessions_milk_yield
      [] s = "voluntary" -> p.voluntary_sessions_milk_yield
      [] s = "diversions" -> p.history_milk_diversion_info

AllEmpty(p) == \A s \in Streams : Batch(p, s) = << >>

\* what the extraction of the running cycle selects when every read completes
Unfailed ==
    FetchBatchData(farmId, Watermarks.last_oid, Watermarks.last_animal_oid,
                   Watermarks.last_lactation_oid,
                   Watermarks.last_history_milk_diversion_oid,
                   dbName, store, now, FALSE, NoFaults, NoDraw)

\* C1: in every cycle the watermark fetch has completed before the
\* extraction starts, and the extraction before the upload request is
\* issued; no upload request is issued in a cycle without both before it.
WatermarkThenExtractionThenUpload ==
    /\ pc = "fetch" => Len(log) = 1 /\ log[1] \in StatusEvents
    /\ pc = "upload" => Len(log) = 2 /\ log[1] \in StatusEvents /\ log[2] = "extract"
    /\ pc = "posting" => Len(log) = 3 /\ log[3] = "ingest"
    /\ \A i \in 1..Len(log) :
         /\ log[i] = "extract" => i = 2 /\ log[1] \in StatusEvents
         /\ log[i] = "ingest" => i = 3 /\ log[2] = "extract" /\ log[1] \in StatusEvents

UploadIssuedAfterBoth ==
    /\ pc = "posting"
    /\ log = <<"status", "extract", "ingest">>
    /\ ~AllEmpty(payload)

\* the retry policy of the requirements: up to 5 attempts, the wait after
\* the n-th failed attempt being 2^n seconds
MaxAttempts == 5
BackoffSeconds(n) == 2 ^ n

RECURSIVE BackoffTotal(_)
BackoffTotal(n) == IF n = 0 THEN 0 ELSE BackoffSeconds(n) + BackoffTotal(n - 1)

\* C2: an upload attempt that fails is retried with the same payload in the
\* same cycle; a cycle whose upload fails to the end has made MaxAttempts
\* attempts, no fewer and no more.
FailedUploadRetriedInCycle ==
    (outcome = "failed" /\ Attempts(log) > 0) => Attempts(log) = MaxAttempts

\* C3: the wait that follows the n-th failed upload attempt of a cycle is
\* 2^n seconds (2, 4, 8, 16), 30 seconds over the five failures of a cycle
\* that gives up.
BackoffWaitsDouble ==
    /\ BackoffTotal(MaxAttempts - 1) = 30
    /\ [][(pc = "posting" /\ Moves /\ outcome' = "failed" /\ ~stoppingToken)
            => delay' = BackoffSeconds(Attempts(log))]_vars

\* a failed upload leaves the identity, the configuration file and what the
\* loop read from it as they were
FailedUploadFrame ==
    (pc \in {"upload", "posting"} /\ Moves /\ outcome' = "failed")
        => UNCHANGED <<farmId, configFile, currentInterval, dbName>>

\* the extraction after a failed upload ran on the same watermarks and the
\* same, unchanged local store
RerunOfFailedCycle ==
    /\ pc = "upload"
    /\ ~mock
    /\ prev.set
    /\ status = prev.status
    /\ store = prev.db

\* ... on the same date, every read of both extractions completing
RerunUndisturbed ==
    /\ RerunOfFailedCycle
    /\ now = prev.now
    /\ prev.clean
    /\ failed = {}

InIntervalWait == stoppingToken \/ (pc' = "delay" /\ delay' = currentInterval)

\* C5: when every batch of the cycle's payload is empty, no request goes to
\* the ingest endpoint in that cycle, and the cycle ends without an error,
\* in the wait of the normal interval (while no cancellation is requested).
EmptyPayloadSendsNothing ==
    [][(pc = "upload" /\ Moves /\ AllEmpty(payload))
         => /\ log' = log
            /\ cloud' = cloud
            /\ outcome' = "skipped"
            /\ InIntervalWait]_vars

NothingNewSkipped ==
    /\ pc = "delay"
    /\ delay = currentInterval
    /\ outcome = "skipped"
    /\ log = <<"status", "extract">>
    /\ RowCount(store) > 0

\* the watermark request of the running cycle failed
StatusFailed == Len(log) > 0 /\ log[1] = "status failed"

FailedStreamAloneIsEmpty ==
    (pc = "upload" /\ ~mock /\ failed \subseteq Streams /\ Cardinality(failed) = 1)
        => \A s \in Streams :
              Batch(payload, s) = IF s \in failed THEN << >> ELSE Batch(Unfailed, s)

\* C8: when the local store cannot be opened, the extraction gives an empty
\* batch for every stream, no request goes to the ingest endpoint, and the
\* cycle ends without an error in the wait of the normal interval (while no
\* cancellation is requested).
UnopenedStoreMeansEmptyCycle ==
    /\ []("open" \in failed /\ pc = "upload" => AllEmpty(payload))
    /\ [][("open" \in failed /\ pc = "upload" /\ Moves)
            => /\ log' = log
               /\ cloud' = cloud
               /\ outcome' = "skipped"
               /\ InIntervalWait]_vars

StoreWithRowsUnopened ==
    /\ pc = "upload"
    /\ failed = {"open"}
    /\ dbName = HostedDb
    /\ ~AllEmpty(Unfailed)
    /\ AllEmpty(payload)

Waits == {"delay", "errdelay"}

\* C9: once in the loop, ExecuteAsync ends on the cancellation alone: no
\* error of the watermark fetch, the extraction or the upload ends it; a
\* cycle, failed or not, ends in a wait, the wait ends at the loop condition
\* and the loop condition starts the next cycle.
LoopEndsOnCancellationOnly ==
    /\ [](pc \in {"stopped", "faulted"} => stoppingToken)
    /\ [][(pc \in InCycle /\ Moves /\ pc' \notin InCycle /\ ~stoppingToken)
            => pc' \in Waits]_vars
    /\ [][(pc \in Waits /\ Moves /\ ~stoppingToken) => pc' = "loop"]_vars
    /\ [][(pc = "loop" /\ Moves /\ ~stoppingToken) => pc' = "status"]_vars

CycleAfterFailedCycle ==
    /\ pc = "status"
    /\ prev.set
    /\ ~stoppingToken

\* C10: at most one cycle is in flight at any time: a cycle begins only when
\* no watermark fetch, extraction or upload of an earlier cycle is running.
OneCycleInFlight ==
    /\ inflight <= 1
    /\ pc \in InCycle <=> inflight = 1

CycleInFlight ==
    /\ inflight = 1
    /\ pc = "posting"
    /\ cloud # ZeroStatus

\* ---------------------------------------------------------------------------
\* Batches of the watermark-driven streams
\* ---------------------------------------------------------------------------

\* the streams whose query is driven by a watermark of the status answer
WatermarkStreams == {"animals", "lactations", "sessions", "diversions"}

\* the watermark the cycle passes to the stream's query
WatermarkOf(st, s) ==
    CASE s = "animals" -> st.last_animal_oid
      [] s = "lactations" -> st.last_lactation_oid
      [] s = "sessions" -> st.last_oid
      [] s = "diversions" -> st.last_history_milk_diversion_oid

\* the table a watermark-driven stream reads
TableOf(s) ==
    CASE s = "animals" -> "BasicAnimal"
      [] s = "lactations" -> "AnimalLactationSummary"
      [] s = "sessions" -> "SessionMilkYield"
      [] s = "diversions" -> "HistoryMilkDiversionInfo"

\* the rows of the stream's table above the watermark
AboveWatermark(db, st, s) == {r \in db[TableOf(s)] : r.OID > WatermarkOf(st, s)}

Ascending(b) == \A i \in 1..Len(b) : \A j \in 1..Len(b) : i < j => b[i].OID < b[j].OID

\* a cycle holds an extracted batch from the end of the extraction to the end
\* of the upload
HoldsBatch == pc \in {"upload", "posting"}

\* the generated batch of the mock mode has its own fixed size
BatchLimit == IF mock THEN MockBatchSize ELSE BatchMax

Selected(db, st, s, t) ==
    CASE s = "animals" ->
            {a \in AboveWatermark(db, st, s) : Alive(a, OneYearAgo(t))}
      [] s = "lactations" ->
            {l \in AboveWatermark(db, st, s) :
                \E a \in db["BasicAnimal"] : l.Animal = a.OID /\ Alive(a, OneYearAgo(t))}
      [] s = "sessions" ->
            IF WatermarkOf(st, s) # 0 THEN AboveWatermark(db, st, s)
            ELSE {r \in db["SessionMilkYield"] :
                    r.BeginTime > (IF HasRecentData(db, OneYearAgo(t), FALSE)
                                   THEN OneYearAgo(t) ELSE FallbackDate)}
      [] s = "diversions" -> AboveWatermark(db, st, s)

\* b holds the n rows of S with the smallest identifiers, in ascending order
SmallestOf(b, S, n) ==
    /\ Len(b) = Min(n, Cardinality(S))
    /\ \A i \in 1..Len(b) : b[i] \in S
    /\ \A r \in S : (\A i \in 1..Len(b) : b[i] # r) => \A i \in 1..Len(b) : b[i].OID < r.OID
    /\ Ascending(b)

\* an extraction of the local store in which every read completed
CleanExtraction == pc = "upload" /\ ~mock /\ failed = {}

SecondExtraction ==
    /\ pc = "upload"
    /\ prev.set
    /\ status = prev.status
    /\ store = prev.db

SameBatches == \A s \in Streams : Batch(payload, s) = Batch(prev.payload, s)

\* the extraction step leaves the local store and the batch of the extraction
\* before it as they were
ExtractionMutatesNothing == (pc = "fetch" /\ Moves) => (store' = store /\ prev' = prev)

IdentityFromFile == ResolveIdentity /\ farmId' = LoadFarmIdFromConfig(configFile)

AgentStep ==
    \/ IdentityFromFile
    \/ BeginCycle
    \/ GetSyncStatusDone
    \/ FetchBatchDataStep
    \/ UploadData
    \/ UploadDataDone
    \/ DelayDone

\* the agent left running on the store it is configured for: no cancellation,
\* no edit of the configuration file
LiveNext ==
    \/ AgentStep
    \/ StoreInsert
    \/ ClockAdvance

\* the cloud is eventually reachable for the watermark request
CloudAnswersStatus == GetSyncStatusDone /\ pc' = "fetch" /\ ~StatusFailed'

\* ... the store is eventually readable in a cycle that has the watermarks
StoreReadable == FetchBatchDataStep /\ ~StatusFailed /\ failed' = {}

\* ... and the cloud eventually accepts the upload of such a cycle
CloudAcceptsUpload == UploadDataDone /\ ~StatusFailed /\ failed = {} /\ outcome' = "ok"

\* the agent installed on a farm: configured by its file, reading the local store
LiveInit == Init /\ ~mock /\ configFile # NoFile

LiveSpec ==
    /\ LiveInit
    /\ [][LiveNext]_vars
    /\ WF_vars(AgentStep)
    /\ SF_vars(CloudAnswersStatus)
    /\ SF_vars(StoreReadable)
    /\ SF_vars(CloudAcceptsUpload)

\* C15 as stated: every local row with an identifier above the watermark is
\* eventually accepted, so that from some cycle on no row of a stream's table
\* is above the watermark the cloud holds.
EveryRowAboveWatermarkAccepted ==
    <>[](\A s \in WatermarkStreams : AboveWatermark(store, cloud, s) = {})

\* C15: every local row that its stream's query selects above the watermark
\* the cloud holds is eventually accepted or ceases to be selected, so that
\* from some cycle on the queries select nothing above the cloud's watermarks.
EverySelectedRowAccepted ==
    <>[](\A s \in WatermarkStreams : Selected(store, cloud, s, now) = {})

\* the drain completed: the cloud holds the highest identifier of a stream with
\* as many rows as the store can hold, and nothing is left to select
Drained ==
    /\ ~mock
    /\ \E s \in WatermarkStreams :
          /\ Cardinality(store[TableOf(s)]) = MaxRows
          /\ WatermarkOf(cloud, s) = MaxRows
    /\ \A s \in WatermarkStreams : Selected(store, cloud, s, now) = {}

\* ---------------------------------------------------------------------------
\* The wait after an exception
\* ---------------------------------------------------------------------------

\* C16: when an exception escapes a cycle, the wait before the next cycle is
\* the fixed 60 seconds, whatever the configured interval.
ErrorWaitIsSixtySeconds == pc = "errdelay" => delay = ErrorDelaySeconds

\* the cycle of an agent configured with another interval ended in an exception
WaitingAfterException ==
    /\ pc = "errdelay"
    /\ currentInterval = OperatorFile.PollingIntervalSeconds
    /\ log = <<"status">>

\* ---------------------------------------------------------------------------
\* Cancellation
\* ---------------------------------------------------------------------------

\* C17: a cancellation is honoured at every suspension point (the interval
\* wait, the wait after an error, network and local-store I/O): once it is
\* requested, the step the agent is suspended in ends the agent; the pending
\* cycle is not carried on and no other is started.
CancelledAgentExitsAtOnce ==
    [][(stoppingToken /\ pc \in InCycle \cup Waits /\ Moves) => pc' \in Terminal]_vars

\* ---------------------------------------------------------------------------
\* Resume of the host
\* ---------------------------------------------------------------------------

\* C18: after the host resumes during the interval wait from a suspension
\* longer than the interval, the next cycle starts immediately: nothing is
\* left of the wait.
ResumeEndsIntervalWait == (pc = "delay" /\ resumed) => delay = 0

\* ---------------------------------------------------------------------------
\* Identity
\* ---------------------------------------------------------------------------

\* what a source gives when it holds no identity
NoIdentity == {"", "UNKNOWN_FARM"}

\* C19: the identity is resolved from (a) the FARM_ID of the configuration,
\* (b) the persisted configuration file, (c) interactive registration, in this
\* order; a later source is read only when the earlier ones gave none, the
\* registration only with an interactive console; the identity is what the
\* last source read gave.
IdentityResolvedInOrder ==
    LET c == consulted.sources
    IN Len(c) > 0 =>
        /\ Len(c) <= 3
        /\ c[1].source = "FARM_ID"
        /\ Len(c) >= 2 => (c[2].source = "file" /\ c[1].id \in NoIdentity)
        /\ Len(c) >= 3 => (/\ c[3].source = "registration"
                           /\ c[2].id = ""
                           /\ consulted.interactive = "yes")
        /\ pc = "loop" => (farmId = c[Len(c)].id /\ farmId # "")
        /\ pc = "aborted" => \A i \in 1..Len(c) : c[i].id \in NoIdentity

\* an agent that found no FARM_ID in its configuration and none in the file,
\* and registered
RegisteredAfterBoth ==
    /\ pc = "loop"
    /\ Len(consulted.sources) = 3
    /\ consulted.sources[1].id = "UNKNOWN_FARM"
    /\ farmId = "farm-reg"

\* C20: no cycle runs without a resolved identity: the loop is entered, and a
\* watermark request or an upload issued, only with a non-empty identity, the
\* one both requests carry.
CyclesRunWithIdentityOnly ==
    /\ pc \in {"loop"} \cup InCycle \cup Waits => farmId # ""
    /\ pc \in {"upload", "posting"} => payload.farm_id = farmId

\* a registered agent issuing an upload
UploadByRegisteredAgent ==
    /\ pc = "posting"
    /\ farmId = "farm-reg"
    /\ payload.farm_id = "farm-reg"

\* ---------------------------------------------------------------------------
\* Startup
\* ---------------------------------------------------------------------------

\* C21: the agent stops at startup, without entering the loop, when no identity
\* was found and the console is not interactive, and in no other startup
\* situation.
StartupStopsOnlyWithoutConsole ==
    /\ consulted.interactive = "no" => pc = "aborted"
    /\ pc = "aborted" => consulted.interactive = "no"

\* C22: once resolved, the identity never changes while the agent runs: after
\* startup no step assigns it, also not after a change of the configuration
\* file, and the payload of every cycle carries it.
IdentityNeverChanges ==
    /\ [][(pc # "start" /\ pc' # "start") => farmId' = farmId]_vars
    /\ [](pc \in {"upload", "posting"} => payload.farm_id = farmId)

\* a cycle that read a configuration file changed to another FARM_ID and
\* extracted under the identity of the startup
CycleAfterIdentityEdit ==
    /\ pc = "upload"
    /\ configFile = OperatorFile
    /\ currentInterval = OperatorFile.PollingIntervalSeconds
    /\ farmId # OperatorFile.FarmId
    /\ payload.farm_id = farmId

\* the startup read no FARM_ID from the configuration
StartedWithoutFarmId ==
    /\ pc = "start" /\ pc' # "start"
    /\ consulted'.sources[1].id \in NoIdentity

\* the startup registered
Registered == StartedWithoutFarmId /\ Len(consulted'.sources) = 3 /\ farmId' # ""

\* C23 as stated: after a successful registration the identity is in the
\* configuration file, and a start with a file that holds a registered identity
\* resolves it from the file, without a registration.
RegistrationPersistedForRestart ==
    /\ [][Registered => configFile' = AgentConfig(farmId')]_vars
    /\ [][\A id \in RegisterResults \ {""} :
            StartedWithoutFarmId /\ configFile = AgentConfig(id)
                => farmId' = id /\ Len(consulted'.sources) = 2]_vars

\* C23: a successful registration writes the identity to the configuration
\* file unless the write fails, which leaves the file as it was; a start with
\* a file that holds a registered identity, and still no FARM_ID in the
\* configuration, resolves it from the file, without a registration and
\* without writing the file.
PersistedRegistrationResolvedOnRestart ==
    /\ [][Registered => configFile' \in {AgentConfig(farmId'), configFile}]_vars
    /\ [][\A id \in RegisterResults \ {""} :
            StartedWithoutFarmId /\ configFile = AgentConfig(id)
                => /\ farmId' = id
                   /\ consulted'.sources = <<consulted'.sources[1], Source("file", id)>>
                   /\ configFile' = configFile]_vars

\* a restarted agent running under the identity an earlier run registered
RestartedWithoutRegistration ==
    /\ pc = "loop"
    /\ Len(consulted.sources) = 2
    /\ farmId \in RegisterResults
    /\ configFile = AgentConfig(farmId)

\* C24: the agent writes the configuration file only in the registration of
\* its startup: a step of the agent that changes the file is the startup that
\* registered, writing the new identity; no step of a cycle writes it.
FileWrittenAtRegistrationOnly ==
    [][(Moves /\ configFile' # configFile)
          => (Registered /\ configFile' = AgentConfig(farmId'))]_vars

\* a cycle of a registered agent completed with the file of its registration
CycleDoneOnRegisteredFile ==
    /\ pc = "delay"
    /\ outcome = "ok"
    /\ farmId \in RegisterResults
    /\ configFile = AgentConfig(farmId)

\* ---------------------------------------------------------------------------
\* Watermarks and configuration of a cycle
\* ---------------------------------------------------------------------------

\* C25: each cycle issues one watermark fetch, first of all, and extracts with
\* the values that fetch returned: the watermarks the cloud holds, or zero when
\* the request failed; never values of an earlier cycle or advanced locally.
WatermarksAreThoseFetched ==
    pc \in {"fetch", "upload", "posting"} =>
        /\ Cardinality({i \in 1..Len(log) : log[i] \in StatusEvents}) = 1
        /\ log[1] \in StatusEvents
        /\ Watermarks = (IF StatusFailed THEN ZeroStatus ELSE cloud)

\* a cycle that follows a failed upload and extracts above non-zero watermarks
FetchedAgainAfterFailure ==
    /\ pc = "upload"
    /\ prev.set
    /\ ~AllEmpty(prev.payload)
    /\ ~StatusFailed
    /\ cloud # ZeroStatus

WideTop == 2
WideMaxOid == 3

\* no two rows of a table share an identifier
Keyed(S) == \A r \in S : \A q \in S : r.OID = q.OID => r = q

\* local stores as the agent may find them: animals, history rows of animals
\* of the store, sessions, and voluntary rows of sessions of the store
WideStores ==
    {db \in
        {[BasicAnimal |-> a, HistoryAnimal |-> h, AnimalLactationSummary |-> {},
          SessionMilkYield |-> s, VoluntarySessionMilkYield |-> v,
          HistoryMilkDiversionInfo |-> {}] :
            a \in {S \in SUBSET [OID : 1..(WideMaxOid - 1), ExitDate : ExitDates] :
                      Keyed(S)},
            h \in SUBSET {[OID |-> r, ReferenceID |-> r] : r \in 1..(WideMaxOid - 1)},
            s \in {S \in SUBSET [OID : 1..WideMaxOid, BeginTime : BeginTimes,
                                 SessionNo : {0}] : Keyed(S)},
            v \in SUBSET [OID : 1..WideMaxOid]} :
        /\ \A h \in db["HistoryAnimal"] : RefersToAnimal(db, "HistoryAnimal", h)
        /\ \A v \in db["VoluntarySessionMilkYield"] :
              \E s \in db["SessionMilkYield"] : s.OID = v.OID}

\* one extraction of a store of WideStores, the connection open, after a
\* watermark request that succeeded
ExtractInit ==
    /\ pc = "fetch"
    /\ farmId = "farm-cfg"
    /\ currentInterval = PollingIntervalSeconds
    /\ dbName = HostedDb
    /\ \E s \in {0, 1}, a \in {0, 1} : status = SyncStatusResponse(s, a, 0, 0)
    /\ cloud = status
    /\ payload = EmptyPayload("")
    /\ delay = 0
    /\ mock = FALSE
    /\ configFile = AgentConfig("farm-cfg")
    /\ stoppingToken = FALSE
    /\ store \in WideStores
    /\ now \in 1..MaxNow
    /\ log = <<"status">>
    /\ outcome = "none"
    /\ failed = {}
    /\ prev = NoPrev
    /\ inflight = 1
    /\ resumed = FALSE
    /\ consulted = NotConsulted

WideExtract ==
    /\ pc = "fetch"
    /\ \E f \in {g \in Faults : g["open"] = NoFault} :
         LET fetch(g) == ReadStreamsTop(WideTop, farmId, Watermarks.last_oid,
                                        Watermarks.last_animal_oid,
                                        Watermarks.last_lactation_oid,
                                        Watermarks.last_history_milk_diversion_oid,
                                        store, now, g)
         IN /\ \A p \in FaultPoints :
                 f[p] > 0 => fetch([f EXCEPT ![p] = f[p] - 1]) # fetch(f)
            /\ payload' = fetch(f)
            /\ failed' = Failed(f)
    /\ store' = StoreAfterExtraction(store)
    /\ log' = Append(log, "extract")
    /\ pc' = "upload"
    /\ UNCHANGED <<farmId, currentInterval, dbName, status, delay, outcome, prev,
                   inflight>>
    /\ UNCHANGED <<mock, configFile, stoppingToken, cloud, now>>
    /\ UNCHANGED histVars

ExtractSpec == ExtractInit /\ [][WideExtract]_vars

\* C27: every history-animal record of a payload references the identifier of
\* an animal record of the same payload, and none is extracted when the animal
\* batch is empty.
HistoryOfExtractedAnimalsOnly ==
    pc = "upload" =>
        /\ \A i \in 1..Len(payload.history_animals) :
              payload.history_animals[i].ReferenceID \in OidsOf(payload.basic_animals)
        /\ payload.basic_animals = << >> => payload.history_animals = << >>

\* an extraction that took the history of the animal it extracted and left the
\* history of another animal in the store
HistoryOfOtherAnimalLeft ==
    /\ pc = "upload"
    /\ payload.history_animals # << >>
    /\ \E h \in store["HistoryAnimal"] :
          h.ReferenceID \notin OidsOf(payload.basic_animals)


\* C28: every voluntary-session record of a payload carries the identifier of
\* a session record of the same payload, and none is extracted when the
\* session batch is empty.
VoluntaryOfExtractedSessionsOnly ==
    pc = "upload" =>
        /\ \A i \in 1..Len(payload.voluntary_sessions_milk_yield) :
              payload.voluntary_sessions_milk_yield[i].OID \in OidsOf(payload.sessions_milk_yield)
        /\ payload.sessions_milk_yield = << >> => payload.voluntary_sessions_milk_yield = << >>


\* the session rows of the store that began after the date d
BeganAfter(d) == {s \in store["SessionMilkYield"] : s.BeginTime > d}

\* the session read of an extraction ran to its end
SessionsRead == pc = "upload" /\ "sessions" \notin failed

\* C29 as stated: with the session watermark 0 the session batch starts one
\* year back when the store has a session row of the last year and at the
\* fixed start date only when it has none; with a watermark above 0 the batch
\* holds the rows above the watermark whatever their date.
LookbackByRecentRows ==
    SessionsRead =>
        IF Watermarks.last_oid = 0
        THEN LET startDate == IF BeganAfter(now - 1) # {} THEN now - 1 ELSE 0
             IN SmallestOf(payload.sessions_milk_yield, BeganAfter(startDate), WideTop)
        ELSE SmallestOf(payload.sessions_milk_yield,
                        {s \in store["SessionMilkYield"] : s.OID > Watermarks.last_oid},
                        WideTop)

\* C29: with the session watermark 0 the session batch starts one year back
\* when the probe for a session row of the last year finds one, and at the
\* fixed start date when it finds none or fails; with a watermark above 0 the
\* batch holds the rows above the watermark whatever their date.
LookbackByProbe ==
    SessionsRead =>
        IF Watermarks.last_oid = 0
        THEN LET startDate == IF BeganAfter(now - 1) # {} /\ "check" \notin failed
                              THEN now - 1 ELSE 0
             IN SmallestOf(payload.sessions_milk_yield, BeganAfter(startDate), WideTop)
        ELSE SmallestOf(payload.sessions_milk_yield,
                        {s \in store["SessionMilkYield"] : s.OID > Watermarks.last_oid},
                        WideTop)

\* a first run that took the sessions of the last year and left an older one
FirstRunLeftOldSession ==
    /\ SessionsRead
    /\ Watermarks.last_oid = 0
    /\ payload.sessions_milk_yield # << >>
    /\ \A i \in 1..Len(payload.sessions_milk_yield) :
          payload.sessions_milk_yield[i].BeginTime > now - 1
    /\ \E s \in store["SessionMilkYield"] : s.BeginTime <= now - 1


\* ---------------------------------------------------------------------------
\* One request per cycle
\* ---------------------------------------------------------------------------

\* C30: the upload request of a cycle carries the payload the extraction of
\* that cycle returned, with the batches of all its streams; it is the only
\* request of the cycle, and the cycle ends when it is answered.
BatchesTravelTogether ==
    /\ [](pc = "posting" =>
            /\ Len(log) >= 2
            /\ log[Len(log)] = "ingest"
            /\ log[Len(log) - 1] = "extract"
            /\ Len(SelectSeq(log, LAMBDA x : x = "ingest")) = 1)
    /\ [][pc' = "posting" => pc \in {"upload", "posting"} /\ payload' = payload]_vars
    /\ [][(pc = "posting" /\ Moves) => pc' \in Waits \cup Terminal]_vars

\* a request in flight with an animal batch and a session batch of the store
RequestWithTwoStreams ==
    /\ pc = "posting"
    /\ ~mock
    /\ payload.basic_animals # << >>
    /\ payload.sessions_milk_yield # << >>


\* ---------------------------------------------------------------------------
\* An upload on a connection that hangs
\* ---------------------------------------------------------------------------

\* HttpClient.Timeout (AddHttpClient without configuration: the client's
\* default) elapses: PostAsJsonAsync throws, with the request processed by the
\* cloud or not
RequestTimesOut == \E answer \in {"lost", "unsent"} : PostAsJsonAsync(answer)

\* the agent's steps when no answer to an upload ever arrives
HungStep ==
    \/ IdentityFromFile
    \/ BeginCycle
    \/ GetSyncStatusDone
    \/ FetchBatchDataStep
    \/ UploadData
    \/ RequestTimesOut
    \/ DelayDone

HungNext ==
    \/ HungStep
    \/ StoreInsert
    \/ ClockAdvance

HungSpec == LiveInit /\ [][HungNext]_vars /\ WF_vars(HungStep)

\* C31: every upload attempt ends: on a connection that hangs the request's
\* timeout ends the attempt as a failure, so that no cycle stays inside an
\* upload attempt for ever.
UploadAttemptEnds == (pc = "posting") ~> (pc # "posting" /\ outcome = "failed")

\* the wait of a cycle whose upload request timed out
WaitingAfterTimedOutUpload ==
    /\ pc = "delay"
    /\ outcome = "failed"
    /\ log # << >>
    /\ log[Len(log)] = "ingest"


\* ---------------------------------------------------------------------------
\* After the upload
\* ---------------------------------------------------------------------------

\* C32 as stated: after an upload that succeeded the agent repeats the cycle at
\* once: it is never in the wait of the polling interval with an accepted
\* upload behind it.
SuccessfulUploadRepeatsAtOnce == ~(pc = "delay" /\ outcome = "ok" /\ delay > 0)


\* C33: a failed upload is no exception of the cycle: after an upload request
\* that failed (refused, or ended by a transport exception) the agent is in
\* the wait of the configured interval, not in the 60 seconds of the catch
\* block (the host's suspension aside, which may cut the wait short).
FailedUploadWaitsInterval ==
    (pc \in Waits /\ outcome = "failed" /\ log # << >> /\ log[Len(log)] = "ingest")
        => /\ pc = "delay"
           /\ resumed \/ delay = currentInterval

\* the wait of an agent configured with another interval after a failed upload
WaitingIntervalAfterFailedUpload ==
    /\ pc = "delay"
    /\ outcome = "failed"
    /\ log # << >>
    /\ log[Len(log)] = "ingest"
    /\ currentInterval = OperatorFile.PollingIntervalSeconds
    /\ delay = currentInterval


\* C34: in every payload of the extraction a history-animal record comes with
\* an animal record and a voluntary-session record with a session record, so
\* that the short-circuit of UploadData, which looks at four of the six lists,
\* skips the upload exactly when all six are empty: a request is issued for
\* every payload with a record in it (while no cancellation is requested).
ShortCircuitSkipsEmptyPayloadsOnly ==
    /\ [](pc = "upload" =>
            /\ payload.history_animals # << >> => payload.basic_animals # << >>
            /\ payload.voluntary_sessions_milk_yield # << >>
                  => payload.sessions_milk_yield # << >>)
    /\ [][(pc = "upload" /\ Moves /\ ~stoppingToken) =>
            /\ outcome' = "skipped" <=> \A s \in Streams : Batch(payload, s) = << >>
            /\ pc' = "posting" <=> \E s \in Streams : Batch(payload, s) # << >>
            /\ pc' = "posting" => log' = Append(log, "ingest")]_vars

\* a request in flight whose payload holds dependent records: a history record
\* with its animal, or a voluntary record with its session
RequestWithDependentRecords ==
    /\ pc = "posting"
    /\ ~mock
    /\ \/ payload.history_animals # << >>
       \/ payload.voluntary_sessions_milk_yield # << >>


\* ---------------------------------------------------------------------------
\* After the cancellation
\* ---------------------------------------------------------------------------

\* C35 as stated: once the cancellation is requested no cycle begins and no
\* ingest request reaches the cloud, whichever step was in progress.
NothingDeliveredAfterCancellation ==
    [][stoppingToken =>
        /\ (pc = "loop" /\ Moves) => pc' \in Terminal
        /\ cloud' = cloud]_vars

\* C35: once the cancellation is requested no cycle begins and no ingest
\* request is issued, whichever step was in progress; the cloud takes rows
\* after it only from a request that was in flight when it was requested.
NothingIssuedAfterCancellation ==
    [][stoppingToken =>
        /\ (pc = "loop" /\ Moves) => pc' \in Terminal
        /\ pc' = "posting" => pc = "posting"
        /\ log' # log => (log' = << >> \/ log'[Len(log')] # "ingest")
        /\ cloud' # cloud => pc = "posting"]_vars

\* an agent cancelled during the watermark request or the extraction, ended at
\* the upload of the rows it extracted without sending them
EndedWithoutSending ==
    /\ pc = "faulted"
    /\ stoppingToken
    /\ outcome = "failed"
    /\ log = <<"status", "extract">>


\* ---------------------------------------------------------------------------
\* Registration
\* ---------------------------------------------------------------------------

\* C36: a start of the agent calls the registration endpoint at most once, and
\* only after the FARM_ID of the configuration and the configuration file gave
\* no identity, with an interactive console; the file is written only with the
\* non-empty identity the call returned; after a registration that failed or
\* returned nothing the file is as it was and no cycle runs.  No later step
\* registers.
RegistrationGuardedAndOnce ==
    /\ [][(pc = "start" /\ Moves) =>
            LET c == consulted'.sources
                calls == {i \in 1..Len(c) : c[i].source = "registration"}
            IN /\ Cardinality(calls) <= 1
               /\ calls # {} =>
                    /\ calls = {3}
                    /\ c[1].source = "FARM_ID" /\ c[1].id \in NoIdentity
                    /\ c[2].source = "file" /\ c[2].id = ""
                    /\ ~configFile.present \/ configFile.FarmId = ""
                    /\ consulted'.interactive = "yes"
               /\ configFile' # configFile =>
                    /\ calls # {}
                    /\ c[3].id # ""
                    /\ configFile' = AgentConfig(c[3].id)
               /\ (calls # {} /\ c[3].id = "") =>
                    /\ configFile' = configFile
                    /\ pc' = "aborted"]_vars
    /\ [][pc # "start" =>
            \A i \in 1..Len(consulted'.sources) :
                consulted'.sources[i].source = "registration"
                    => consulted' = consulted]_vars

\* a start that registered without success and ended, the file not written
RegistrationFailedAtStartup ==
    /\ pc = "aborted"
    /\ Len(consulted.sources) = 3
    /\ consulted.sources[3].id = ""
    /\ configFile = NoFile


\* ---------------------------------------------------------------------------
\* A cycle without a configuration file
\* ---------------------------------------------------------------------------

PlaceholderIsNotAnIdentity ==
    /\ [][(pc = "start" /\ Moves /\ consulted'.sources[1].id \in {"", "UNKNOWN_FARM"}) =>
            /\ Len(consulted'.sources) >= 2
            /\ consulted'.sources[2] =
                 [source |-> "file",
                  id |-> IF configFile.present THEN configFile.FarmId ELSE ""]
            /\ configFile.present /\ configFile.FarmId # ""
                 => farmId' = configFile.FarmId /\ pc' = "loop"]_vars
    /\ [](pc \in {"loop"} \cup InCycle \cup Waits => farmId # "UNKNOWN_FARM")

\* an agent started with the placeholder as FARM_ID, about to run its cycles
\* under the identity of the configuration file
StartedOnFileDespitePlaceholder ==
    /\ pc = "loop"
    /\ Len(consulted.sources) = 2
    /\ consulted.sources[1].id = "UNKNOWN_FARM"
    /\ farmId = "farm-cfg"

====
